---------------------------- MODULE Spec2Model ----------------------------
(***************************************************************************)
(* Model of flask_humanize (src/flask_humanize/__init__.py): the Humanize  *)
(* extension adapter, its registration on a host application (init_app),   *)
(* the locale selector, the per-request locale activation (__set_locale)   *)
(* and the template filter (__humanize) with its coercion to text          *)
(* (force_unicode).                                                        *)
(*                                                                         *)
(* Python values are modelled as follows.                                  *)
(*   - None is the string None_ ("None"); a key missing from a dict is     *)
(*     Absent.  Locales are strings.                                       *)
(*   - A value handled by the filter is a record [type, data]: type is the *)
(*     Python type ("text", "bytes", "NoneType", "int") and data a         *)
(*     sequence of numbers: code points of a text, byte values of a byte   *)
(*     string, <<n>> for the int n, <<>> for None.                         *)
(*   - A call that may raise returns a record with a field raised: ""      *)
(*     when it returned normally, else the class of the exception.         *)
(***************************************************************************)
EXTENDS Integers, Sequences, FiniteSets, TLC

(***************************************************************************)
(* Bounds of the model.                                                    *)
(***************************************************************************)
\* longest text / byte string a library function returns
MaxLen == 2
\* most before_request hooks registered on the host (successful init_app calls)
MaxHooks == 2

None_ == "None"
Absent == "<absent>"

Adapters == {"h1", "h2"}
Requests == {1, 2}

(***************************************************************************)
(* Values                                                                  *)
(***************************************************************************)
Text(cps) == [type |-> "text", data |-> cps]
Bytes(bs) == [type |-> "bytes", data |-> bs]
PyNone == [type |-> "NoneType", data |-> <<>>]
PyInt(n) == [type |-> "int", data |-> <<n>>]

SeqsUpTo(S, n) == UNION {[1..k -> S] : k \in 0..n}

\* code points and bytes the library's results are drawn from:
\* "A", "e-acute"; 0x41 and the two bytes of UTF-8 e-acute, a lead byte and a
\* continuation byte, either of them invalid alone
CodePoints == {65, 233}
ByteValues == {65, 195, 169}

TextValues == {Text(s) : s \in SeqsUpTo(CodePoints, MaxLen)}
BytesValues == {Bytes(s) : s \in SeqsUpTo(ByteValues, MaxLen)}

(***************************************************************************)
(* compat.text_type and isinstance(value, compat.text_type)                *)
(***************************************************************************)
text_type == "text"

isinstance_text_type(value) == value.type = text_type

(***************************************************************************)
(* value.decode('utf-8') on a byte string: strict UTF-8 decoding.          *)
(***************************************************************************)
IsContinuation(b) == b >= 128 /\ b <= 191

SeqLenOfLead(b) ==
    IF b < 128 THEN 1
    ELSE IF b >= 194 /\ b <= 223 THEN 2
    ELSE IF b >= 224 /\ b <= 239 THEN 3
    ELSE IF b >= 240 /\ b <= 244 THEN 4
    ELSE 0

WellFormedAt(bs, n) ==
    /\ n >= 1
    /\ Len(bs) >= n
    /\ \A i \in 2..n : IsContinuation(bs[i])
    /\ (bs[1] = 224 => bs[2] >= 160)
    /\ (bs[1] = 237 => bs[2] <= 159)
    /\ (bs[1] = 240 => bs[2] >= 144)
    /\ (bs[1] = 244 => bs[2] <= 143)

CodePointAt(bs, n) ==
    IF n = 1 THEN bs[1]
    ELSE IF n = 2 THEN (bs[1] - 192) * 64 + (bs[2] - 128)
    ELSE IF n = 3 THEN (bs[1] - 224) * 4096 + (bs[2] - 128) * 64 + (bs[3] - 128)
    ELSE (bs[1] - 240) * 262144 + (bs[2] - 128) * 4096
         + (bs[3] - 128) * 64 + (bs[4] - 128)

RECURSIVE utf8_decode(_)
utf8_decode(bs) ==
    IF bs = <<>> THEN [raised |-> "", data |-> <<>>]
    ELSE LET n == SeqLenOfLead(bs[1])
         IN IF ~WellFormedAt(bs, n)
            THEN [raised |-> "UnicodeDecodeError", data |-> <<>>]
            ELSE LET rest == utf8_decode(SubSeq(bs, n + 1, Len(bs)))
                 IN IF rest.raised # ""
                    THEN rest
                    ELSE [raised |-> "",
                          data |-> <<CodePointAt(bs, n)>> \o rest.data]

\* value.decode('utf-8'): only a byte string has the method
decode(value) ==
    IF value.type # "bytes"
    THEN [raised |-> "AttributeError", value |-> PyNone]
    ELSE LET d == utf8_decode(value.data)
         IN IF d.raised # ""
            THEN [raised |-> d.raised, value |-> PyNone]
            ELSE [raised |-> "", value |-> Text(d.data)]

(***************************************************************************)
(* force_unicode                                                           *)
(***************************************************************************)
\* faulty variant: the value is returned as it is, never decoded
force_unicode_keep(value) == [raised |-> "", value |-> value]

force_unicode(value) ==
    IF ~isinstance_text_type(value)
    THEN decode(value)
    ELSE [raised |-> "", value |-> value]

(***************************************************************************)
(* The humanize library, as the filter uses it: a namespace of attributes  *)
(* (getattr(humanize, fname)) and calls of the attribute found.  What a    *)
(* library function does with a value is the library's business: a call    *)
(* is given a behaviour, either a value it returns or the class of the     *)
(* exception it raises.                                                    *)
(***************************************************************************)
LibraryFunctions == {"naturaltime", "naturalsize"}
\* humanize.i18n is an attribute too, a module: calling it raises TypeError
LibraryAttributes == LibraryFunctions \cup {"i18n"}
FunctionNames == LibraryAttributes \cup {"not_a_real_function"}

\* classes deriving from Exception, and those deriving from BaseException only
ExceptionClasses ==
    {"Exception", "TypeError", "ValueError", "AttributeError", "KeyError",
     "UnicodeDecodeError"}
BaseOnlyClasses == {"KeyboardInterrupt"}

ReturnValues == TextValues \cup BytesValues \cup {PyNone, PyInt(3600)}
Behaviours ==
    {[raises |-> "", result |-> v] : v \in ReturnValues}
    \cup {[raises |-> c, result |-> PyNone] :
            c \in {"TypeError"} \cup BaseOnlyClasses}

\* inputs of the filter
Values == {PyInt(3600), PyNone}
Kwargs == {{}, {"gnu"}}

NoSuchFunction == "Humanize module does not contains function '%s'"
ExecutionFailed == "An error occured during execution function '%s'"
NoMessage == [format |-> "", arg |-> ""]
NoCall == [attr |-> "", value |-> PyNone, kwargs |-> {}]

\* method(value, **kwargs): calling an attribute that is no function raises
\* TypeError; a function does what its behaviour says
apply(attr, value, kwargs, behaviour) ==
    IF attr \notin LibraryFunctions
    THEN [raises |-> "TypeError", result |-> PyNone]
    ELSE behaviour

\* method(value, **kwargs) if kwargs else method(value)
call(attr, value, kwargs, behaviour) ==
    IF kwargs # {}
    THEN apply(attr, value, kwargs, behaviour)
    ELSE apply(attr, value, {}, behaviour)

(***************************************************************************)
(* Humanize.__humanize, lines 125-130: the lookup of the function name     *)
(***************************************************************************)
\* faulty variant: a name the library lacks is not refused
lookup_with_default(fname) ==
    [raised |-> "", message |-> NoMessage, attr |-> fname]

lookup(fname) ==
    IF fname \notin LibraryAttributes
    THEN [raised |-> "Exception",
          message |-> [format |-> NoSuchFunction, arg |-> fname],
          attr |-> ""]
    ELSE [raised |-> "", message |-> NoMessage, attr |-> fname]

(***************************************************************************)
(* Humanize.__humanize, lines 132-137: the call, and except Exception      *)
(***************************************************************************)
\* faulty variant: the call is made outside any try block
invoke_unguarded(attr, fname, value, kwargs, behaviour) ==
    LET c == call(attr, value, kwargs, behaviour)
    IN [raised |-> c.raises, message |-> NoMessage, value |-> c.result]

invoke(attr, fname, value, kwargs, behaviour) ==
    LET c == call(attr, value, kwargs, behaviour)
    IN IF c.raises \in ExceptionClasses
       THEN [raised |-> "ValueError",
             message |-> [format |-> ExecutionFailed, arg |-> fname],
             value |-> PyNone]
       ELSE [raised |-> c.raises, message |-> NoMessage, value |-> c.result]

(***************************************************************************)
(* Humanize.__humanize: the outcome of one call of the filter.  called     *)
(* records the call made to the library, NoCall when none was made.        *)
(***************************************************************************)
Humanize_humanize(value, fname, kwargs, behaviour) ==
    LET method == lookup(fname)
    IN IF method.raised # ""
       THEN [raised |-> method.raised, message |-> method.message,
             value |-> PyNone, called |-> NoCall]
       ELSE LET v == invoke(method.attr, fname, value, kwargs, behaviour)
                made == [attr |-> method.attr, value |-> value, kwargs |-> kwargs]
            IN IF v.raised # ""
               THEN [raised |-> v.raised, message |-> v.message,
                     value |-> PyNone, called |-> made]
               ELSE LET u == force_unicode(v.value)
                    IN [raised |-> u.raised, message |-> NoMessage,
                        value |-> u.value, called |-> made]

(***************************************************************************)
(* The host application: config store, extension registry (an attribute    *)
(* the host may lack), template filters and before_request hooks.          *)
(***************************************************************************)
ConfigKeys == {"HUMANIZE_DEFAULT_LOCALE", "BABEL_DEFAULT_LOCALE"}
ExtKeys == {"babel", "humanize", "cache"}

\* string.upper() on the keys of default_config
Upper == [default_locale |-> "DEFAULT_LOCALE"]

self_name(string) == "HUMANIZE_" \o Upper[string]

default_config == [default_locale |-> "en"]

\* faulty variant: a plain assignment, d[key] = value
setdefault_overwrite(d, key, value) == [d EXCEPT ![key] = value]

\* dict.setdefault(key, value)
setdefault(d, key, value) ==
    IF d[key] = Absent THEN [d EXCEPT ![key] = value] ELSE d

\* app.extensions.get('babel') is not None; the host must have the attribute
app_has_babel(app) == app.extensions["babel"] # Absent

\* for k, v in default_config.items(): app.config.setdefault(self_name(k), v)
RECURSIVE set_defaults(_, _)
set_defaults(config, keys) ==
    IF keys = {} THEN config
    ELSE LET k == CHOOSE x \in keys : TRUE
         IN set_defaults(setdefault(config, self_name(k), default_config[k]),
                         keys \ {k})

(***************************************************************************)
(* Humanize.init_app: the host after the call, and the exception raised    *)
(* ("" when the call returns).                                             *)
(***************************************************************************)
init_app(self, app) ==
    LET config1 == set_defaults(app.config, DOMAIN default_config)
        app1 == [app EXCEPT !.config = config1]
    IN IF ~app.has_extensions
       THEN \* app_has_babel reads app.extensions
            [app |-> app1, raised |-> "AttributeError"]
       ELSE IF app_has_babel(app1) /\ config1["BABEL_DEFAULT_LOCALE"] = Absent
       THEN [app |-> app1, raised |-> "KeyError"]
       ELSE LET default_locale == config1["BABEL_DEFAULT_LOCALE"]
                config2 ==
                    IF app_has_babel(app1) /\ default_locale # None_
                    THEN setdefault(config1, self_name("default_locale"),
                                    default_locale)
                    ELSE config1
                app2 == [app1 EXCEPT
                            !.config = config2,
                            !.template_filters = self,
                            !.before_request_funcs = Append(@, self)]
                app3 == IF ~app2.has_extensions
                        THEN [app2 EXCEPT
                                !.has_extensions = TRUE,
                                !.extensions = [k \in ExtKeys |-> Absent]]
                        ELSE app2
            IN [app |-> [app3 EXCEPT !.extensions["humanize"] = self],
                raised |-> ""]

(***************************************************************************)
(* Humanize.localeselector: the new value of self.locale_selector_func     *)
(***************************************************************************)
\* faulty variant: a selector already registered is kept
localeselector_keep_first(old, func) == IF old = None_ THEN func ELSE old

localeselector(old, func) == func

(***************************************************************************)
(* Locale selectors: zero-argument callables reading the current request.  *)
(* constant_fr_FR returns 'fr_FR'; best_match returns the request's        *)
(* preferred language, None when the request states none.                  *)
(***************************************************************************)
Selectors == {"constant_fr_FR", "best_match"}
Languages == {None_, "fr_FR", "ru_RU"}

call_selector(func, lang) == IF func = "constant_fr_FR" THEN "fr_FR" ELSE lang

\* Humanize.default_locale
default_locale_of(config) == config["HUMANIZE_DEFAULT_LOCALE"]

(***************************************************************************)
(* Humanize.__set_locale, lines 115-120: the locale to activate            *)
(***************************************************************************)
\* faulty variant: None returned by the selector is not replaced by the default
set_locale_no_fallback(func, lang, config) ==
    IF func = None_ THEN default_locale_of(config) ELSE call_selector(func, lang)

Humanize_set_locale(func, lang, config) ==
    IF func = None_
    THEN default_locale_of(config)
    ELSE LET locale == call_selector(func, lang)
         IN IF locale = None_ THEN default_locale_of(config) ELSE locale

\* the library's state before any activation: no translation is active
NoTranslation == "<null translations>"

(***************************************************************************)
(* humanize.i18n.activate(locale): the new process-wide active locale      *)
(***************************************************************************)
\* faulty variant: a locale once activated stays active
activate_once(current, locale) ==
    IF current = NoTranslation THEN locale ELSE current

activate(current, locale) == locale

(***************************************************************************)
(* The host runs its before_request hooks in registration order; each is   *)
(* the __set_locale of the adapter that registered it.                     *)
(***************************************************************************)
RECURSIVE run_before_request(_, _, _, _, _)
run_before_request(funcs, selectors, lang, config, current) ==
    IF funcs = <<>> THEN current
    ELSE run_before_request(
            Tail(funcs), selectors, lang, config,
            activate(current,
                     Humanize_set_locale(selectors[Head(funcs)], lang, config)))

(***************************************************************************)
(* State                                                                   *)
(***************************************************************************)
VARIABLES
    app,                  \* the host application
    locale_selector_func, \* per adapter: self.locale_selector_func
    active_locale,        \* the humanize library's process-wide active locale
    pc,                   \* per request: "idle" or "handling"
    lang,                 \* per request in flight: its preferred language
    outcome,              \* the outcome of the latest call of the filter
    last,                 \* the latest operation
    filter_call,          \* the latest call of the filter: the function name
                          \* and what the library call did, if one was made
    caller,               \* HUMANIZE_DEFAULT_LOCALE as the caller last set it
    registered,           \* per adapter: the selector last passed to localeselector
    resolved,             \* per request in flight: the locale it is to see
    activated_by          \* the request whose activation ran latest, 0 if none

vars == <<app, locale_selector_func, active_locale, pc, lang, outcome, last,
          filter_call, caller, registered, resolved, activated_by>>

NoOutcome ==
    [raised |-> "", message |-> NoMessage, value |-> PyNone, called |-> NoCall]

NoFilterCall == [fname |-> "", raises |-> "", result |-> PyNone]

Op(op, self, req, raised) ==
    [op |-> op, self |-> self, req |-> req, raised |-> raised]

\* the locale a request beginning now is to see: resolved from the selector
\* last registered on the adapter of the registration record and from the
\* default configured now
LocaleToSee(self, l) ==
    LET func == registered[self]
        default == app.config["HUMANIZE_DEFAULT_LOCALE"]
    IN IF func = None_ THEN default
       ELSE IF call_selector(func, l) = None_ THEN default
       ELSE call_selector(func, l)

Hosts(hs, bs, es, xs) ==
    {[config |-> [HUMANIZE_DEFAULT_LOCALE |-> h, BABEL_DEFAULT_LOCALE |-> b],
      has_extensions |-> e,
      extensions |-> [babel |-> IF e THEN x ELSE Absent,
                      humanize |-> Absent,
                      cache |-> IF e THEN "cache_obj" ELSE Absent],
      template_filters |-> Absent,
      before_request_funcs |-> <<>>] :
        h \in hs, b \in bs, e \in es, x \in xs}

InitWith(hosts) ==
    /\ app \in hosts
    /\ locale_selector_func = [a \in Adapters |-> None_]
    /\ active_locale = NoTranslation
    /\ pc = [r \in Requests |-> "idle"]
    /\ lang = [r \in Requests |-> None_]
    /\ outcome = NoOutcome
    /\ last = Op("none", "", 0, "")
    /\ filter_call = NoFilterCall
    /\ caller = app.config["HUMANIZE_DEFAULT_LOCALE"]
    /\ registered = [a \in Adapters |-> None_]
    /\ resolved = [r \in Requests |-> Absent]
    /\ activated_by = 0

Init ==
    InitWith(Hosts({Absent, None_, "ru_RU"}, {Absent, None_, "fr_FR"},
                   BOOLEAN, {Absent, "babel_obj"}))

(***************************************************************************)
(* Operations                                                              *)
(***************************************************************************)
\* humanize = Humanize(app), or humanize.init_app(app)
InitApp(self) ==
    /\ Len(app.before_request_funcs) < MaxHooks
    /\ LET r == init_app(self, app)
       IN /\ app' = r.app
          /\ last' = Op("init_app", self, 0, r.raised)
    /\ UNCHANGED <<locale_selector_func, active_locale, pc, lang, outcome,
                   filter_call, caller, registered, resolved, activated_by>>

\* humanize.localeselector(func)
LocaleSelector(self, func) ==
    /\ locale_selector_func' =
         [locale_selector_func EXCEPT ![self] = localeselector(@, func)]
    /\ registered' = [registered EXCEPT ![self] = func]
    /\ last' = Op("localeselector", self, 0, "")
    /\ UNCHANGED <<app, active_locale, pc, lang, outcome, filter_call, caller,
                   resolved, activated_by>>

\* the caller sets app.config['HUMANIZE_DEFAULT_LOCALE']
SetConfig(v) ==
    /\ app' = [app EXCEPT !.config["HUMANIZE_DEFAULT_LOCALE"] = v]
    /\ caller' = v
    /\ last' = Op("set_config", "", 0, "")
    /\ UNCHANGED <<locale_selector_func, active_locale, pc, lang, outcome,
                   filter_call, registered, resolved, activated_by>>

\* the host begins to handle request r, whose preferred language is l: it
\* runs the before_request hooks
BeginRequest(r, l) ==
    /\ pc[r] = "idle"
    /\ pc' = [pc EXCEPT ![r] = "handling"]
    /\ lang' = [lang EXCEPT ![r] = l]
    /\ active_locale' =
         run_before_request(app.before_request_funcs, locale_selector_func,
                            l, app.config, active_locale)
    /\ resolved' =
         [resolved EXCEPT ![r] =
            IF app.before_request_funcs = <<>> THEN Absent
            ELSE LocaleToSee(app.extensions["humanize"], l)]
    /\ activated_by' = IF app.before_request_funcs = <<>> THEN activated_by ELSE r
    /\ last' = Op("before_request", "", r, "")
    /\ UNCHANGED <<app, locale_selector_func, outcome, filter_call, caller,
                   registered>>

\* requests handled one at a time
BeginRequestAlone(r, l) ==
    /\ \A q \in Requests : pc[q] = "idle"
    /\ BeginRequest(r, l)

\* a template of request r calls the filter: value|humanize(fname, **kwargs)
Dispatch(r, values, fnames, kwargss, behaviours) ==
    /\ pc[r] = "handling"
    /\ app.template_filters # Absent
    /\ \E value \in values, fname \in fnames, kwargs \in kwargss,
          behaviour \in behaviours :
            /\ outcome' = Humanize_humanize(value, fname, kwargs, behaviour)
            /\ filter_call' =
                 IF fname \in LibraryAttributes
                 THEN LET c == call(fname, value, kwargs, behaviour)
                      IN [fname |-> fname, raises |-> c.raises,
                          result |-> c.result]
                 ELSE [fname |-> fname, raises |-> "", result |-> PyNone]
    /\ last' = Op("humanize", app.template_filters, r, "")
    /\ UNCHANGED <<app, locale_selector_func, active_locale, pc, lang, caller,
                   registered, resolved, activated_by>>

\* the host has handled request r
EndRequest(r) ==
    /\ pc[r] = "handling"
    /\ pc' = [pc EXCEPT ![r] = "idle"]
    /\ lang' = [lang EXCEPT ![r] = None_]
    /\ resolved' = [resolved EXCEPT ![r] = Absent]
    /\ last' = Op("end_request", "", r, "")
    /\ UNCHANGED <<app, locale_selector_func, active_locale, outcome,
                   filter_call, caller, registered, activated_by>>

\* the calls of the filter in the specifications of the adapter's life
FewBehaviours ==
    {[raises |-> "", result |-> Text(<<65>>)],
     [raises |-> "TypeError", result |-> PyNone]}

DispatchFew(r) ==
    Dispatch(r, {PyInt(3600)}, {"naturaltime", "not_a_real_function"}, {{}},
             FewBehaviours)

DispatchAny(r) == Dispatch(r, Values, FunctionNames, Kwargs, Behaviours)

(***************************************************************************)
(* Spec: the life of the adapters on one host, requests handled one at a   *)
(* time.                                                                   *)
(***************************************************************************)
Next ==
    \/ \E self \in Adapters : InitApp(self)
    \/ \E self \in Adapters, func \in Selectors : LocaleSelector(self, func)
    \/ \E v \in {"en", "ru_RU"} : SetConfig(v)
    \/ \E r \in Requests, l \in Languages : BeginRequestAlone(r, l)
    \/ \E r \in Requests : DispatchFew(r)
    \/ \E r \in Requests : EndRequest(r)

Spec == Init /\ [][Next]_vars

(***************************************************************************)
(* SpecConc: the same, the host handling requests concurrently: a          *)
(* request's activation and each call of the filter are steps that         *)
(* interleave with those of the other request.                             *)
(***************************************************************************)
InitConc == InitWith(Hosts({Absent}, {Absent}, {TRUE}, {Absent}))

NextConc ==
    \/ InitApp("h1")
    \/ \E func \in Selectors : LocaleSelector("h1", func)
    \/ SetConfig("ru_RU")
    \/ \E r \in Requests, l \in Languages : BeginRequest(r, l)
    \/ \E r \in Requests : DispatchFew(r)
    \/ \E r \in Requests : EndRequest(r)

SpecConc == InitConc /\ [][NextConc]_vars

(***************************************************************************)
(* SpecFilter: one adapter, one request at a time, every call of the       *)
(* filter: every value, function name, keyword options and behaviour of    *)
(* the library.                                                            *)
(***************************************************************************)
InitFilter == InitWith(Hosts({Absent}, {Absent}, {TRUE}, {Absent}))

NextFilter ==
    \/ InitApp("h1")
    \/ BeginRequestAlone(1, "fr_FR")
    \/ DispatchAny(1)
    \/ EndRequest(1)

SpecFilter == InitFilter /\ [][NextFilter]_vars

(***************************************************************************)
(* Properties                                                              *)
(***************************************************************************)
HookedAdapter == app.before_request_funcs[Len(app.before_request_funcs)]

BabelActive == app.has_extensions /\ app.extensions["babel"] # Absent

ConfigurationError(fname) ==
    /\ outcome.raised = "Exception"
    /\ outcome.message = [format |-> NoSuchFunction, arg |-> fname]
    /\ outcome.value = PyNone

FormattingError(fname) ==
    /\ outcome.raised = "ValueError"
    /\ outcome.message = [format |-> ExecutionFailed, arg |-> fname]
    /\ outcome.value = PyNone

ReturnedText == outcome.raised = "" /\ outcome.value.type = "text"

\* the UTF-8 encoding of a sequence of code points
RECURSIVE utf8_encode(_)
utf8_encode(cps) ==
    IF cps = <<>> THEN <<>>
    ELSE LET c == Head(cps)
             first ==
                IF c < 128 THEN <<c>>
                ELSE IF c < 2048
                THEN <<192 + (c \div 64), 128 + (c % 64)>>
                ELSE IF c < 65536
                THEN <<224 + (c \div 4096), 128 + ((c \div 64) % 64),
                       128 + (c % 64)>>
                ELSE <<240 + (c \div 262144), 128 + ((c \div 4096) % 64),
                       128 + ((c \div 64) % 64), 128 + (c % 64)>>
         IN first \o utf8_encode(Tail(cps))

\* C1: the per-request locale activation activates the configured
\* HUMANIZE_DEFAULT_LOCALE when no selector is registered, the selector's
\* returned string when it returns one, and the configured default when the
\* selector returns None.
C1_LocaleResolution ==
    (last.op = "before_request" /\ app.before_request_funcs # <<>>) =>
        LET func == locale_selector_func[HookedAdapter]
            default == app.config["HUMANIZE_DEFAULT_LOCALE"]
            returned == call_selector(func, lang[last.req])
        IN /\ func = None_ => active_locale = default
           /\ (func # None_ /\ returned # None_) => active_locale = returned
           /\ (func # None_ /\ returned = None_) => active_locale = default

\* C1 witness: a request whose registered selector returned None was activated
\* with the configured default.
C1_Witness ==
    /\ last.op = "before_request"
    /\ app.before_request_funcs # <<>>
    /\ locale_selector_func[HookedAdapter] = "best_match"
    /\ lang[last.req] = None_
    /\ app.config["HUMANIZE_DEFAULT_LOCALE"] = "ru_RU"
    /\ active_locale = "ru_RU"

\* C2: a call of the filter with a function name that is no attribute of the
\* library ends in the ConfigurationError-class failure carrying the name,
\* returns no value, calls no library function and leaves the active locale,
\* the host (its configuration) and the registered selectors unchanged.
C2_UnknownFunction ==
    [][(last'.op = "humanize" /\ filter_call'.fname \notin LibraryAttributes) =>
          /\ outcome'.raised = "Exception"
          /\ outcome'.message =
                [format |-> NoSuchFunction, arg |-> filter_call'.fname]
          /\ outcome'.value = PyNone
          /\ outcome'.called = NoCall
          /\ UNCHANGED <<active_locale, app, locale_selector_func>>]_vars

\* C2 witness: the filter was called with an unknown name and failed so.
C2_Witness ==
    /\ last.op = "humanize"
    /\ filter_call.fname = "not_a_real_function"
    /\ ConfigurationError("not_a_real_function")
    /\ outcome.called = NoCall

\* C3 as claimed: whatever the call of the resolved attribute raises, the
\* filter fails with the FormattingError-class failure carrying the function
\* name, and returns no value.
C3_AnyRaiseIsFormattingError ==
    (last.op = "humanize" /\ filter_call.raises # "") =>
        FormattingError(filter_call.fname)

\* C3 amended: when the call of the resolved attribute raises an exception
\* deriving from Exception, the filter fails with the FormattingError-class
\* failure carrying the function name, and returns no value.
C3_ExceptionIsFormattingError ==
    (last.op = "humanize" /\ filter_call.raises \in ExceptionClasses) =>
        /\ FormattingError(filter_call.fname)
        /\ outcome.called.attr = filter_call.fname

\* C3 witness: a library function raised TypeError and the filter failed with
\* the FormattingError-class failure.
C3_Witness ==
    /\ last.op = "humanize"
    /\ filter_call.fname = "naturalsize"
    /\ filter_call.raises = "TypeError"
    /\ FormattingError("naturalsize")
    /\ outcome.called.kwargs = {"gnu"}

\* C4: whenever the filter returns, it returns a text: the library's text
\* result unchanged, the UTF-8 decoding of its byte-string result; coercing
\* the returned value again changes nothing.
C4_ReturnsText ==
    (last.op = "humanize" /\ outcome.raised = "") =>
        /\ outcome.value.type = "text"
        /\ (filter_call.result.type = "text" =>
               outcome.value = filter_call.result)
        /\ (filter_call.result.type = "bytes" =>
               utf8_encode(outcome.value.data) = filter_call.result.data)
        /\ force_unicode(outcome.value) = [raised |-> "", value |-> outcome.value]

\* C4 witness: the library returned the two bytes of UTF-8 e-acute and the
\* filter returned the one-character text.
C4_Witness ==
    /\ last.op = "humanize"
    /\ filter_call.result = Bytes(<<195, 169>>)
    /\ outcome.raised = ""
    /\ outcome.value = Text(<<233>>)

\* C5: HUMANIZE_DEFAULT_LOCALE, once set by the caller, keeps the caller's
\* value through every registration; when the caller never set it and no
\* internationalization extension is active, it is "en" after a
\* registration.
C5_CallerConfigWins ==
    /\ caller # Absent => app.config["HUMANIZE_DEFAULT_LOCALE"] = caller
    /\ (caller = Absent /\ last.op = "init_app" /\ ~BabelActive) =>
          app.config["HUMANIZE_DEFAULT_LOCALE"] = "en"

\* C5 witness: two registrations on a host with an active babel extension
\* whose caller had set the default.
C5_Witness ==
    /\ last.op = "init_app"
    /\ Len(app.before_request_funcs) = 2
    /\ BabelActive
    /\ app.config["BABEL_DEFAULT_LOCALE"] = "fr_FR"
    /\ caller = "ru_RU"
    /\ app.config["HUMANIZE_DEFAULT_LOCALE"] = "ru_RU"

\* C6 as claimed: after a registration on a host with an entry babel in its
\* extension registry, a BABEL_DEFAULT_LOCALE that is not None and no
\* caller-set HUMANIZE_DEFAULT_LOCALE, HUMANIZE_DEFAULT_LOCALE equals
\* BABEL_DEFAULT_LOCALE.
C6_BabelDefaultOverrides ==
    (/\ last.op = "init_app"
     /\ last.raised = ""
     /\ BabelActive
     /\ app.config["BABEL_DEFAULT_LOCALE"] \notin {Absent, None_}
     /\ caller = Absent) =>
        app.config["HUMANIZE_DEFAULT_LOCALE"] = app.config["BABEL_DEFAULT_LOCALE"]

\* C7: with requests handled one at a time, while a request is handled (at
\* each of its calls of the filter) the active locale is the locale resolved
\* when that request began, from the selector last registered and the default
\* configured then.
C7_LocaleOfThisRequest ==
    \A r \in Requests :
        (pc[r] = "handling" /\ resolved[r] # Absent) =>
            active_locale = resolved[r]

\* C7 witness: a call of the filter in request 2, after request 1 activated
\* another locale, under a selector that replaced an earlier one.
C7_Witness ==
    /\ last.op = "humanize"
    /\ last.req = 2
    /\ activated_by = 2
    /\ registered[HookedAdapter] = "best_match"
    /\ resolved[2] = "ru_RU"
    /\ active_locale = "ru_RU"
    /\ app.config["HUMANIZE_DEFAULT_LOCALE"] = "en"

\* C8 as claimed: a registration that completes, or that finds the host
\* without an extension registry, leaves the host with a registry that maps
\* humanize to the adapter registered and whose other entries are unchanged.
C8_RegistrationRecord ==
    [][(last'.op = "init_app" /\ (last'.raised = "" \/ ~app.has_extensions)) =>
          /\ app'.has_extensions
          /\ app'.extensions["humanize"] = last'.self
          /\ \A k \in ExtKeys \ {"humanize"} :
                app'.extensions[k] = app.extensions[k]]_vars

\* C9: with requests handled concurrently, a call of the filter can run while
\* the active locale is the other request's (the witness); a request sees a
\* locale other than its own only when another request's activation ran
\* after its own.
C9_OnlyByInterleaving ==
    \A r \in Requests :
        (pc[r] = "handling" /\ resolved[r] # Absent /\ activated_by = r) =>
            active_locale = resolved[r]

\* C9 witness: request 1 calls the filter while the active locale is the one
\* resolved for request 2, which differs from its own.
C9_Witness ==
    /\ last.op = "humanize"
    /\ last.req = 1
    /\ pc[1] = "handling"
    /\ pc[2] = "handling"
    /\ resolved[1] = "fr_FR"
    /\ resolved[2] = "ru_RU"
    /\ active_locale = "ru_RU"

\* C10 as claimed: every call of the filter in which the library function
\* returns (or none is called) ends in a returned text, the
\* ConfigurationError-class failure or the FormattingError-class failure.
C10_ThreeOutcomes ==
    (last.op = "humanize" /\ filter_call.raises = "") =>
        \/ ReturnedText
        \/ ConfigurationError(filter_call.fname)
        \/ FormattingError(filter_call.fname)

=============================================================================
